---- MODULE Spec2Model ----
(***************************************************************************)
(* Model of src/app.py: the Flask endpoint generate_workflow_stream, the   *)
(* process-wide dictionary chat_histories and the generator                *)
(* stream_response that relays the model's fragments.                      *)
(*                                                                         *)
(* Text is a sequence of one-character strings.  A Python list is an       *)
(* object on a heap: chat_histories maps an identifier to a reference, and *)
(* the list created by request r at line 65 has reference r.  Requests run *)
(* on threads of the Flask server: every access to chat_histories or to a  *)
(* stored list is a step of its own; the code between two such accesses    *)
(* is local to the request and is part of an adjacent step.                *)
(***************************************************************************)
EXTENDS Naturals, Sequences, FiniteSets

\* ------------------------------------------------------------------ bounds
NumReq == 2
MaxChunks == 2
MaxPieces == 10

Req == 1..NumReq

\* --------------------------------------------------------------------- text
\* the character U+0060 (a TLA+ string cannot hold it)
Tick == "U+0060"

\* "```json" and "```", the two markers of line 75
FenceJson == <<Tick, Tick, Tick, "j", "s", "o", "n">>
Fence == <<Tick, Tick, Tick>>

\* s[1..Len(old)] = old
StartsWith(s, old) ==
    /\ Len(s) >= Len(old)
    /\ SubSeq(s, 1, Len(old)) = old

\* str.replace(old, ""): the occurrences of old are found from left to
\* right, the search resuming after each occurrence removed
RECURSIVE Replace(_, _)
Replace(s, old) ==
    IF Len(s) < Len(old) THEN s
    ELSE IF StartsWith(s, old)
         THEN Replace(SubSeq(s, Len(old) + 1, Len(s)), old)
         ELSE <<Head(s)>> \o Replace(Tail(s), old)

\* a mutant of cleaned_chunk: only "```" is removed
CleanClosingOnly(content) == Replace(content, Fence)

\* a mutant of cleaned_chunk: only "```json" is removed
CleanOpeningOnly(content) == Replace(content, FenceJson)

\* line 75: content.replace("```json", "").replace("```", "")
cleaned_chunk(content) == Replace(Replace(content, FenceJson), Fence)

\* a mutant of Accumulate: the response is overwritten, not extended
AccumulateLast(acc, cleaned) == cleaned

\* line 76: ai_full_response += cleaned_chunk
Accumulate(acc, cleaned) == acc \o cleaned

\* the concatenation of texts, in order
RECURSIVE Join(_)
Join(parts) ==
    IF parts = <<>> THEN <<>> ELSE Head(parts) \o Join(Tail(parts))

\* json.dumps({"error": "Failed to stream response from AI."}), line 82
ErrorPayload ==
    <<"{", "\"", "e", "r", "r", "o", "r", "\"", ":", " ", "\"",
      "F", "a", "i", "l", "e", "d", " ", "t", "o", " ",
      "s", "t", "r", "e", "a", "m", " ",
      "r", "e", "s", "p", "o", "n", "s", "e", " ",
      "f", "r", "o", "m", " ", "A", "I", ".", "\"", "}">>

\* the raw fragments the model may produce (chunk.content)
Fragments ==
    { <<Tick, Tick, Tick, "j", "s", "o", "n", "{">>,
      <<Tick, Tick>>,
      <<Tick>> }

\* ----------------------------------------------------------------- messages
\* the text of the instruction prompt, lines 28-50, as one token
system_prompt_text == <<"system_prompt_text">>

SystemMessage(content) == [role |-> "system", content |-> content]

\* a mutant of HumanMessage: the prompt is stored with the system role
HumanAsSystemMessage(content) == [role |-> "system", content |-> content]

HumanMessage(content) == [role |-> "human", content |-> content]
AIMessage(content) == [role |-> "ai", content |-> content]

\* line 52
system_message == SystemMessage(system_prompt_text)

\* -------------------------------------------------------------- identifiers
Digit == <<"1", "2", "3", "4", "5", "6", "7", "8", "9">>

\* the i-th value of str(uuid.uuid4()): a value no client has sent and no
\* earlier call has returned
Uuid(i) == <<"u", Digit[i]>>

\* the identifiers a client invents
ClientIds == { <<"a">> }

Ids == ClientIds \cup { Uuid(i) : i \in Req }

\* the prompts a client sends; "" is <<>>
Prompts == { <<"p">>, <<"q">> }

\* ------------------------------------------------------------------- state
VARIABLES
    chat_histories,  \* identifier -> reference of the stored list, 0: no key
    lists,           \* reference -> contents of the list object
    uuids,           \* number of uuid4() calls made
    pc,              \* request -> position in the handler / the generator
    data,            \* request -> JSON body of the request
    conversation_id, \* request -> local of line 59
    target,          \* request -> list found by the subscript of 67 / 79
    messages_to_send,\* request -> reference bound at line 68
    ai_full_response,\* request -> local of stream_response
    resp,            \* request -> response returned by the handler
    raw,             \* request -> fragments pulled from llm.stream
    out,             \* request -> fragments yielded to the client
    sent,            \* request -> the messages llm.stream was called with
    calls,           \* request -> number of llm.stream calls
    human_at,        \* request -> <<reference, index>> of its human message
    ai_at,           \* request -> <<reference, index>> of its AI message
    ended_before,    \* request -> the requests that had ended when it arrived
    fragment,        \* a fragment given to the stripping rule of line 75
    stripped,        \* what the rule made of it
    passes           \* number of times the rule was applied

vars == <<chat_histories, lists, uuids, pc, data, conversation_id, target,
          messages_to_send, ai_full_response, resp, raw, out, sent, calls,
          human_at, ai_at, ended_before, fragment, stripped, passes>>

\* a response: the status, the "error" member of a JSON body ("" when the body
\* is not JSON) and the X-Conversation-Id header (<<>> when there is none)
NoResponse == [status |-> 0, error |-> "", header |-> <<>>]
NoPos == <<0, 0>>

\* the positions of a request that takes no further step: answered 400, or
\* its generator has returned
Ended == {"rejected", "failed", "completed"}

\* data.get(k) is truthy
Truthy(d, k) == k \in DOMAIN d /\ d[k] # <<>>

\* a mutant of Invalid: only a missing prompt is rejected, "" is accepted
InvalidNoneOnly(d) == "prompt" \notin DOMAIN d

\* line 61: not user_prompt
Invalid(d) == ~Truthy(d, "prompt")

\* the identifiers a client can know: the ones it invents and the ones
\* returned to it in an X-Conversation-Id header
Known == ClientIds \cup { resp[q].header : q \in { p \in Req : resp[p].status = 200 } }

\* the JSON objects a client posts: each member is a string and may be
\* missing or empty
Bodies ==
    LET ps == Prompts \cup { <<>> }
        cs == Known \cup { <<>> }
    IN  { [prompt |-> p, conversation_id |-> c] : p \in ps, c \in cs }
        \cup { [prompt |-> p] : p \in ps }
        \cup { [conversation_id |-> c] : c \in cs }
        \cup { << >> }

\* no request has arrived: chat_histories = {}, line 18
NoRequest ==
    /\ chat_histories = [i \in Ids |-> 0]
    /\ lists = [r \in Req |-> <<>>]
    /\ uuids = 0
    /\ pc = [r \in Req |-> "idle"]
    /\ data = [r \in Req |-> << >>]
    /\ conversation_id = [r \in Req |-> <<>>]
    /\ target = [r \in Req |-> 0]
    /\ messages_to_send = [r \in Req |-> 0]
    /\ ai_full_response = [r \in Req |-> <<>>]
    /\ resp = [r \in Req |-> NoResponse]
    /\ raw = [r \in Req |-> <<>>]
    /\ out = [r \in Req |-> <<>>]
    /\ sent = [r \in Req |-> <<>>]
    /\ calls = [r \in Req |-> 0]
    /\ human_at = [r \in Req |-> NoPos]
    /\ ai_at = [r \in Req |-> NoPos]
    /\ ended_before = [r \in Req |-> {}]

Init ==
    /\ NoRequest
    /\ fragment = <<>>
    /\ stripped = <<>>
    /\ passes = 0

\* ----------------------------------------------------------------- handler
\* lines 57-64: the body is read, the identifier chosen, the prompt
\* validated and the membership test made
Receive(r) ==
    /\ pc[r] = "idle"
    /\ \A q \in Req : q < r => pc[q] # "idle"
    /\ \E d \in Bodies :
        LET fresh == ~Truthy(d, "conversation_id")
            id == IF fresh THEN Uuid(uuids + 1) ELSE d["conversation_id"]
        IN  /\ data' = [data EXCEPT ![r] = d]
            /\ conversation_id' = [conversation_id EXCEPT ![r] = id]
            /\ uuids' = IF fresh THEN uuids + 1 ELSE uuids
            /\ ended_before' = [ended_before EXCEPT ![r] =
                                   { q \in Req : pc[q] \in Ended }]
            /\ IF Invalid(d)
               THEN /\ resp' = [resp EXCEPT ![r] =
                          [status |-> 400, error |-> "Prompt is required",
                           header |-> <<>>]]
                    /\ pc' = [pc EXCEPT ![r] = "rejected"]
               ELSE /\ resp' = resp
                    /\ pc' = [pc EXCEPT ![r] =
                          IF chat_histories[id] = 0 THEN "seed" ELSE "subscript_human"]
    /\ UNCHANGED <<chat_histories, lists, target, messages_to_send,
                   ai_full_response, raw, out, sent, calls, human_at, ai_at>>
    /\ UNCHANGED <<fragment, stripped, passes>>

\* a mutant of Seed: the store is rebuilt around the new list, the other
\* identifiers are dropped
SeedClearsStore(r) ==
    /\ pc[r] = "seed"
    /\ lists' = [lists EXCEPT ![r] = <<system_message>>]
    /\ chat_histories' = [id \in Ids |-> IF id = conversation_id[r] THEN r ELSE 0]
    /\ pc' = [pc EXCEPT ![r] = "subscript_human"]
    /\ UNCHANGED <<uuids, data, conversation_id, target, messages_to_send,
                   ai_full_response, resp, raw, out, sent, calls, human_at, ai_at>>
    /\ UNCHANGED <<ended_before, fragment, stripped, passes>>

\* line 65: chat_histories[conversation_id] = [system_message]
Seed(r) ==
    /\ pc[r] = "seed"
    /\ lists' = [lists EXCEPT ![r] = <<system_message>>]
    /\ chat_histories' = [chat_histories EXCEPT ![conversation_id[r]] = r]
    /\ pc' = [pc EXCEPT ![r] = "subscript_human"]
    /\ UNCHANGED <<uuids, data, conversation_id, target, messages_to_send,
                   ai_full_response, resp, raw, out, sent, calls, human_at, ai_at>>
    /\ UNCHANGED <<ended_before, fragment, stripped, passes>>

\* line 67, chat_histories[conversation_id]: the list is found, then the
\* HumanMessage is built
SubscriptHuman(r) ==
    /\ pc[r] = "subscript_human"
    /\ target' = [target EXCEPT ![r] = chat_histories[conversation_id[r]]]
    /\ pc' = [pc EXCEPT ![r] = "append_human"]
    /\ UNCHANGED <<chat_histories, lists, uuids, data, conversation_id,
                   messages_to_send, ai_full_response, resp, raw, out, sent,
                   calls, human_at, ai_at>>
    /\ UNCHANGED <<ended_before, fragment, stripped, passes>>

\* line 67, .append(HumanMessage(content=user_prompt))
AppendHuman(r) ==
    /\ pc[r] = "append_human"
    /\ lists' = [lists EXCEPT ![target[r]] =
                    Append(@, HumanMessage(data[r]["prompt"]))]
    /\ human_at' = [human_at EXCEPT ![r] = <<target[r], Len(lists[target[r]]) + 1>>]
    /\ pc' = [pc EXCEPT ![r] = "bind"]
    /\ UNCHANGED <<chat_histories, uuids, data, conversation_id, target,
                   messages_to_send, ai_full_response, resp, raw, out, sent,
                   calls, ai_at>>
    /\ UNCHANGED <<ended_before, fragment, stripped, passes>>

\* a mutant of Return: the header echoes the identifier of the request body
ReturnEchoesRequest(r) ==
    /\ pc[r] = "bind"
    /\ messages_to_send' = [messages_to_send EXCEPT ![r] =
                               chat_histories[conversation_id[r]]]
    /\ resp' = [resp EXCEPT ![r] =
                   [status |-> 200, error |-> "",
                    header |-> IF "conversation_id" \in DOMAIN data[r]
                               THEN data[r]["conversation_id"] ELSE <<>>]]
    /\ pc' = [pc EXCEPT ![r] = "returned"]
    /\ UNCHANGED <<chat_histories, lists, uuids, data, conversation_id, target,
                   ai_full_response, raw, out, sent, calls, human_at, ai_at>>
    /\ UNCHANGED <<ended_before, fragment, stripped, passes>>

\* lines 68-86: messages_to_send is bound, the response is built around the
\* generator, not yet started, and returned with the header
Return(r) ==
    /\ pc[r] = "bind"
    /\ messages_to_send' = [messages_to_send EXCEPT ![r] =
                               chat_histories[conversation_id[r]]]
    /\ resp' = [resp EXCEPT ![r] =
                   [status |-> 200, error |-> "", header |-> conversation_id[r]]]
    /\ pc' = [pc EXCEPT ![r] = "returned"]
    /\ UNCHANGED <<chat_histories, lists, uuids, data, conversation_id, target,
                   ai_full_response, raw, out, sent, calls, human_at, ai_at>>
    /\ UNCHANGED <<ended_before, fragment, stripped, passes>>

\* --------------------------------------------------------- stream_response
\* a mutant of StreamCall: the model gets the system message and the last
\* message only, not the stored turns
StreamCallNoMemory(r) ==
    /\ pc[r] = "returned"
    /\ sent' = [sent EXCEPT ![r] =
                   <<system_message,
                     lists[messages_to_send[r]][Len(lists[messages_to_send[r]])]>>]
    /\ calls' = [calls EXCEPT ![r] = @ + 1]
    /\ ai_full_response' = [ai_full_response EXCEPT ![r] = <<>>]
    /\ pc' = [pc EXCEPT ![r] = "streaming"]
    /\ UNCHANGED <<chat_histories, lists, uuids, data, conversation_id, target,
                   messages_to_send, resp, raw, out, human_at, ai_at>>
    /\ UNCHANGED <<ended_before, fragment, stripped, passes>>

\* lines 71-73, the first next(): llm.stream(messages_to_send) reads the list
StreamCall(r) ==
    /\ pc[r] = "returned"
    /\ sent' = [sent EXCEPT ![r] = lists[messages_to_send[r]]]
    /\ calls' = [calls EXCEPT ![r] = @ + 1]
    /\ ai_full_response' = [ai_full_response EXCEPT ![r] = <<>>]
    /\ pc' = [pc EXCEPT ![r] = "streaming"]
    /\ UNCHANGED <<chat_histories, lists, uuids, data, conversation_id, target,
                   messages_to_send, resp, raw, out, human_at, ai_at>>
    /\ UNCHANGED <<ended_before, fragment, stripped, passes>>

\* a mutant of StreamChunk: the fragment is pulled and accumulated but held
\* back, nothing is yielded
StreamChunkBuffered(r) ==
    /\ pc[r] = "streaming"
    /\ Len(raw[r]) < MaxChunks
    /\ \E content \in Fragments :
        /\ raw' = [raw EXCEPT ![r] = Append(@, content)]
        /\ ai_full_response' = [ai_full_response EXCEPT ![r] =
                                   Accumulate(@, cleaned_chunk(content))]
    /\ UNCHANGED <<chat_histories, lists, uuids, pc, data, conversation_id,
                   target, messages_to_send, resp, out, sent, calls, human_at,
                   ai_at>>
    /\ UNCHANGED <<ended_before, fragment, stripped, passes>>

\* lines 73-77: one fragment is pulled, cleaned, accumulated and yielded
StreamChunk(r) ==
    /\ pc[r] = "streaming"
    /\ Len(raw[r]) < MaxChunks
    /\ \E content \in Fragments :
        /\ raw' = [raw EXCEPT ![r] = Append(@, content)]
        /\ ai_full_response' = [ai_full_response EXCEPT ![r] =
                                   Accumulate(@, cleaned_chunk(content))]
        /\ out' = [out EXCEPT ![r] = Append(@, cleaned_chunk(content))]
    /\ UNCHANGED <<chat_histories, lists, uuids, pc, data, conversation_id,
                   target, messages_to_send, resp, sent, calls, human_at, ai_at>>
    /\ UNCHANGED <<ended_before, fragment, stripped, passes>>

\* a mutant of StreamFail: the failure is swallowed, no payload is yielded
StreamFailSilent(r) ==
    /\ pc[r] = "streaming"
    /\ pc' = [pc EXCEPT ![r] = "error_yielded"]
    /\ UNCHANGED <<chat_histories, lists, uuids, data, conversation_id, target,
                   messages_to_send, ai_full_response, resp, raw, out, sent,
                   calls, human_at, ai_at>>
    /\ UNCHANGED <<ended_before, fragment, stripped, passes>>

\* lines 73, 80-82: the pull raises; the error payload is yielded
StreamFail(r) ==
    /\ pc[r] = "streaming"
    /\ out' = [out EXCEPT ![r] = Append(@, ErrorPayload)]
    /\ pc' = [pc EXCEPT ![r] = "error_yielded"]
    /\ UNCHANGED <<chat_histories, lists, uuids, data, conversation_id, target,
                   messages_to_send, ai_full_response, resp, raw, sent, calls,
                   human_at, ai_at>>
    /\ UNCHANGED <<ended_before, fragment, stripped, passes>>

\* a mutant of StreamClose: after the error payload the generator starts over
\* and calls the model again
StreamCloseRetry(r) ==
    /\ pc[r] = "error_yielded"
    /\ calls[r] < 3
    /\ pc' = [pc EXCEPT ![r] = "returned"]
    /\ UNCHANGED <<chat_histories, lists, uuids, data, conversation_id, target,
                   messages_to_send, ai_full_response, resp, raw, out, sent,
                   calls, human_at, ai_at>>
    /\ UNCHANGED <<ended_before, fragment, stripped, passes>>

\* after line 82: the generator is resumed and returns
StreamClose(r) ==
    /\ pc[r] = "error_yielded"
    /\ pc' = [pc EXCEPT ![r] = "failed"]
    /\ UNCHANGED <<chat_histories, lists, uuids, data, conversation_id, target,
                   messages_to_send, ai_full_response, resp, raw, out, sent,
                   calls, human_at, ai_at>>
    /\ UNCHANGED <<ended_before, fragment, stripped, passes>>

\* line 73 exhausted, line 79 chat_histories[conversation_id]: the list is
\* found, then the AIMessage is built
SubscriptAI(r) ==
    /\ pc[r] = "streaming"
    /\ target' = [target EXCEPT ![r] = chat_histories[conversation_id[r]]]
    /\ pc' = [pc EXCEPT ![r] = "append_ai"]
    /\ UNCHANGED <<chat_histories, lists, uuids, data, conversation_id,
                   messages_to_send, ai_full_response, resp, raw, out, sent,
                   calls, human_at, ai_at>>
    /\ UNCHANGED <<ended_before, fragment, stripped, passes>>

\* line 79, .append(AIMessage(content=ai_full_response)); the generator ends
AppendAI(r) ==
    /\ pc[r] = "append_ai"
    /\ lists' = [lists EXCEPT ![target[r]] =
                    Append(@, AIMessage(ai_full_response[r]))]
    /\ ai_at' = [ai_at EXCEPT ![r] = <<target[r], Len(lists[target[r]]) + 1>>]
    /\ pc' = [pc EXCEPT ![r] = "completed"]
    /\ UNCHANGED <<chat_histories, uuids, data, conversation_id, target,
                   messages_to_send, ai_full_response, resp, raw, out, sent,
                   calls, human_at>>
    /\ UNCHANGED <<ended_before, fragment, stripped, passes>>

Next ==
    \E r \in Req :
        \/ Receive(r)
        \/ Seed(r)
        \/ SubscriptHuman(r)
        \/ AppendHuman(r)
        \/ Return(r)
        \/ StreamCall(r)
        \/ StreamChunk(r)
        \/ StreamFail(r)
        \/ StreamClose(r)
        \/ SubscriptAI(r)
        \/ AppendAI(r)

Spec == Init /\ [][Next]_vars

\* ------------------------------------------------- the stripping rule alone
\* the pieces the fragments given to the rule are made of
Pieces == { <<Tick>>, <<"j">>, <<"s", "o", "n">> }

\* every text made of at most MaxPieces pieces
Inputs ==
    { Join(ps) : ps \in UNION { [1..n -> Pieces] : n \in 0..MaxPieces } }

StripInit ==
    /\ NoRequest
    /\ fragment \in Inputs
    /\ stripped = <<>>
    /\ passes = 0

\* line 75 applied to the fragment
Strip ==
    /\ passes = 0
    /\ stripped' = cleaned_chunk(fragment)
    /\ passes' = passes + 1
    /\ UNCHANGED <<chat_histories, lists, uuids, pc, data, conversation_id,
                   target, messages_to_send, ai_full_response, resp, raw, out,
                   sent, calls, human_at, ai_at, ended_before, fragment>>

\* line 75 applied to its own result
StripAgain ==
    /\ passes = 1
    /\ stripped' = cleaned_chunk(stripped)
    /\ passes' = passes + 1
    /\ UNCHANGED <<chat_histories, lists, uuids, pc, data, conversation_id,
                   target, messages_to_send, ai_full_response, resp, raw, out,
                   sent, calls, human_at, ai_at, ended_before, fragment>>

StripNext == Strip \/ StripAgain

SpecStrip == StripInit /\ [][StripNext]_vars

\* ------------------------------------------------------------------ claims
\* the history stored under identifier id
History(id) == lists[chat_histories[id]]

HasPrompt(r) == Truthy(data[r], "prompt")
Received(r) == pc[r] # "idle"

\* the handler of r has returned its streaming response
Returned(r) == resp[r].status = 200

\* the generator of r has finished
Failed(r) == pc[r] = "failed"
Completed(r) == pc[r] = "completed"

\* s occurs in t as a substring
Occurs(s, t) ==
    \E i \in 1..(Len(t) - Len(s) + 1) : SubSeq(t, i, i + Len(s) - 1) = s

\* the messages of a given role in a list
Count(h, role) == Cardinality({ i \in 1..Len(h) : h[i].role = role })

\* h is a prefix of g
IsPrefix(h, g) == Len(h) <= Len(g) /\ SubSeq(g, 1, Len(h)) = h

\* C1: a request whose prompt is missing or empty is answered with
\* {"error": "Prompt is required"} and status 400; the step that handles it
\* changes neither chat_histories nor any list, whatever identifier the request
\* carries or is given, and the request never creates a list, appends a
\* message or calls the model afterwards.
C1_PromptRequired ==
    /\ [][\A r \in Req :
            (pc[r] = "idle" /\ pc'[r] # "idle" /\ ~Truthy(data'[r], "prompt"))
            => /\ resp'[r] = [status |-> 400, error |-> "Prompt is required",
                              header |-> <<>>]
               /\ chat_histories' = chat_histories
               /\ lists' = lists]_vars
    /\ [](\A r \in Req :
            (Received(r) /\ ~HasPrompt(r))
            => /\ resp[r].status = 400
               /\ lists[r] = <<>>
               /\ \A id \in Ids : chat_histories[id] # r
               /\ human_at[r] = NoPos
               /\ ai_at[r] = NoPos
               /\ calls[r] = 0)

\* C1 witness: a request with an empty prompt and a fresh identifier of its
\* own has been rejected while another conversation is stored
C1_Witness ==
    \E r \in Req :
        /\ pc[r] = "rejected"
        /\ "prompt" \in DOMAIN data[r]
        /\ data[r]["prompt"] = <<>>
        /\ "conversation_id" \notin DOMAIN data[r]
        /\ chat_histories[conversation_id[r]] = 0
        /\ \E id \in Ids : chat_histories[id] # 0

\* the request found its identifier missing at line 64 and created a list
Seeded(r) == lists[r] # <<>>

\* the text of the cleaned fragments of a raw sequence
CleanedAll(fragments) ==
    [i \in 1..Len(fragments) |-> Replace(Replace(fragments[i], FenceJson), Fence)]

\* C2 (as claimed): when the handler of a request with a prompt and an
\* identifier that was absent from the request or from the store returns, the
\* header carries the identifier and the store holds under it the list this
\* request created, made of the system message and this request's human
\* message only.
C2_FreshHistorySeeded ==
    [][\A r \in Req :
        (pc[r] = "bind" /\ pc'[r] = "returned" /\ Seeded(r))
        => /\ resp'[r].header = conversation_id[r]
           /\ chat_histories'[conversation_id[r]] = r
           /\ lists'[r] = <<system_message, HumanMessage(data[r]["prompt"])>>]_vars

\* C3 (as claimed): a history stored under an identifier is never replaced:
\* every step leaves under the identifier a history that has the earlier one
\* as a prefix.
C3_HistoryOnlyGrows ==
    [][\A id \in Ids :
        chat_histories[id] # 0
        => /\ chat_histories'[id] # 0
           /\ IsPrefix(History(id), History(id)')]_vars

\* C4 (as claimed): when the stream of a request ends on a failure, the
\* history stored under its identifier holds the human message of the request
\* and the request has appended no AI message.
C4_FailureKeepsHumanOnly ==
    [][\A r \in Req :
        (pc[r] = "error_yielded" /\ pc'[r] = "failed")
        => /\ ai_at'[r] = NoPos
           /\ human_at'[r] # NoPos
           /\ human_at'[r][1] = chat_histories'[conversation_id[r]]
           /\ lists'[human_at'[r][1]][human_at'[r][2]]
                  = HumanMessage(data[r]["prompt"])]_vars

\* the part of C4 about the AI message alone: a request whose stream failed
\* has appended no AI message to any list
C4_NoPartialAIMessage ==
    \A r \in Req :
        pc[r] \in {"error_yielded", "failed"}
        => /\ ai_at[r] = NoPos
           /\ \A q \in Req : \A i \in 1..Len(lists[q]) :
                  lists[q][i].role = "ai" => \E o \in Req \ {r} : ai_at[o] = <<q, i>>

\* C5: when the pull from the model fails, the output gains the error payload
\* as one more fragment after the cleaned fragments already sent, nothing is
\* sent after it, and the generator then returns.
C5_ErrorPayloadLast ==
    /\ [](\A r \in Req :
            pc[r] \in {"error_yielded", "failed"}
            => out[r] = CleanedAll(raw[r]) \o <<ErrorPayload>>)
    /\ [][\A r \in Req :
            /\ (pc[r] = "streaming" /\ pc'[r] = "error_yielded")
               => out'[r] = Append(out[r], ErrorPayload)
            /\ pc[r] = "error_yielded"
               => (out'[r] = out[r] /\ pc'[r] \in {"error_yielded", "failed"})
            /\ pc[r] = "failed"
               => (out'[r] = out[r] /\ pc'[r] = "failed")]_vars

\* C5 witness: a stream failed after a fragment holding a marker was sent
C5_Witness ==
    \E r \in Req :
        /\ Failed(r)
        /\ Len(out[r]) = 2
        /\ out[r][1] = <<"{">>
        /\ out[r][2] = ErrorPayload

\* C6: the AI message a request appends holds the concatenation, in order, of
\* the fragments sent to the client, and a completed request has appended one.
C6_AIMessageIsJoinedOutput ==
    \A r \in Req :
        /\ Completed(r) => ai_at[r] # NoPos
        /\ ai_at[r] # NoPos
           => lists[ai_at[r][1]][ai_at[r][2]] = AIMessage(Join(out[r]))

\* C6 witness: a request completed after two fragments, one of them cleaned
C6_Witness ==
    \E r \in Req :
        /\ Completed(r)
        /\ Len(out[r]) = 2
        /\ out[r][1] # raw[r][1]
        /\ out[r][2] # <<>>

\* C7 (as claimed): the body of a completed response holds neither marker.
C7_NoMarkerInBody ==
    \A r \in Req :
        Completed(r)
        => /\ ~Occurs(FenceJson, Join(out[r]))
           /\ ~Occurs(Fence, Join(out[r]))

\* C8: every stored history begins with the system message and holds no other
\* system message.
C8_OneSystemMessage ==
    \A id \in Ids :
        chat_histories[id] # 0
        => /\ Len(History(id)) >= 1
           /\ History(id)[1] = system_message
           /\ Count(History(id), "system") = 1

\* C8 witness: a history holds two human messages and an AI message
C8_Witness ==
    \E id \in Ids :
        /\ chat_histories[id] # 0
        /\ Count(History(id), "human") = 2
        /\ Count(History(id), "ai") = 1

\* the requests with a prompt made on identifier id
On(id) == { r \in Req : Received(r) /\ HasPrompt(r) /\ conversation_id[r] = id }

\* no request is being handled or streamed
Quiescent == \A r \in Req : pc[r] \in {"idle", "rejected", "failed", "completed"}

\* C9 (as claimed): when the requests made have ended, the history of an
\* identifier holds one system message, one human message for each request
\* with a prompt made on it and one AI message for each of them that completed.
C9_MessageCounts ==
    \A id \in Ids :
        (Quiescent /\ On(id) # {})
        => /\ chat_histories[id] # 0
           /\ Count(History(id), "system") = 1
           /\ Count(History(id), "human") = Cardinality(On(id))
           /\ Count(History(id), "ai")
                  = Cardinality({ r \in On(id) : Completed(r) })

\* C10: the X-Conversation-Id header of a streaming response is the identifier
\* of the list the human message of the request went to; it is the identifier
\* of the request when the request has one, and otherwise one generated for
\* this request alone.
C10_HeaderIsConversationId ==
    \A r \in Req :
        Returned(r)
        => /\ human_at[r] # NoPos
           /\ resp[r].header = conversation_id[human_at[r][1]]
           /\ Truthy(data[r], "conversation_id")
              => resp[r].header = data[r]["conversation_id"]
           /\ ~Truthy(data[r], "conversation_id")
              => /\ \E i \in 1..uuids : resp[r].header = Uuid(i)
                 /\ \A q \in Req \ {r} :
                        (Received(q) /\ ~Truthy(data[q], "conversation_id"))
                        => conversation_id[q] # resp[r].header

\* C10 witness: one response carries a generated identifier, and a later
\* request that supplied it got it back
C10_Witness ==
    \E r, q \in Req :
        /\ r # q
        /\ Returned(r) /\ Returned(q)
        /\ "conversation_id" \notin DOMAIN data[r]
        /\ Truthy(data[q], "conversation_id")
        /\ data[q]["conversation_id"] = resp[r].header
        /\ resp[q].header = resp[r].header

\* the model has been called for request r
Called(r) == calls[r] >= 1

\* request p had ended when request q arrived
Before(p, q) == Received(q) /\ p \in ended_before[q]

\* C11: when a request q is made on the identifier of a request p that had
\* ended before q arrived, and no other request used the identifier, the
\* model call of q receives the system message, the human message of p, the
\* AI message of p when the stream of p completed, and the human message of
\* q, in this order: at least 3 messages.
C11_SecondCallSeesFirstTurn ==
    \A p, q \in Req :
        (/\ Before(p, q)
         /\ HasPrompt(p) /\ HasPrompt(q)
         /\ On(conversation_id[q]) = {p, q}
         /\ Called(q))
        => /\ Len(sent[q]) >= 3
           /\ sent[q] =
                IF Completed(p)
                THEN <<system_message,
                       HumanMessage(data[p]["prompt"]),
                       AIMessage(Join(out[p])),
                       HumanMessage(data[q]["prompt"])>>
                ELSE <<system_message,
                       HumanMessage(data[p]["prompt"]),
                       HumanMessage(data[q]["prompt"])>>

\* C11 witness: the second of two sequential requests on one identifier has
\* called the model after the first one completed with a non-empty answer
C11_Witness ==
    \E p, q \in Req :
        /\ Before(p, q)
        /\ Completed(p)
        /\ Join(out[p]) # <<>>
        /\ HasPrompt(q)
        /\ conversation_id[q] = conversation_id[p]
        /\ data[q]["prompt"] # data[p]["prompt"]
        /\ Called(q)
        /\ Len(sent[q]) = 4

\* a text holds one of the two markers
HasMarker(t) == Occurs(FenceJson, t) \/ Occurs(Fence, t)

\* C12: the stripping rule returns a fragment that holds no marker unchanged,
\* and returns the empty text for a fragment that is exactly one marker.
C12_StripLeavesPlainText ==
    passes = 1
    => /\ ~HasMarker(fragment) => stripped = fragment
       /\ fragment \in {FenceJson, Fence} => stripped = <<>>

\* C12 witness: the rule was applied to the fragment "```json"
C12_Witness ==
    /\ passes = 1
    /\ fragment = FenceJson
    /\ stripped = <<>>

\* C12 second witness case, a non-empty fragment without marker, is part of
\* the same run: the rule was applied to "``json"
C12_PlainCase ==
    /\ passes = 1
    /\ fragment = <<Tick, Tick, "j", "s", "o", "n">>
    /\ stripped = fragment

\* C13: what the stripping rule returns holds neither marker, and applying
\* the rule to it again returns it unchanged.
C13_StrippedHasNoMarker ==
    /\ [](passes >= 1 => ~HasMarker(stripped))
    /\ [][passes = 1 => stripped' = stripped]_vars

\* C13 witness: the rule was applied twice to "`````json`", where removing
\* "```json" brings three backticks together
C13_Witness ==
    /\ passes = 2
    /\ fragment = <<Tick, Tick, Tick, Tick, Tick, "j", "s", "o", "n", Tick>>
    /\ stripped = <<>>

\* the generator of the request has pulled every fragment it will pull
Exhausted(r) == pc[r] \in {"append_ai", "completed"}

\* C14: fragments are forwarded one at a time and in arrival order. The k-th
\* text sent to the client is the cleaned k-th raw fragment; when a fragment
\* is pulled from the model every earlier one has been sent already, and the
\* step that pulls it sends its cleaned text; the AI message is appended only
\* once the last fragment has been forwarded, and nothing is pulled or sent
\* after it.
C14_ForwardedInOrder ==
    /\ [](\A r \in Req :
            /\ Len(out[r]) >= Len(raw[r])
            /\ \A k \in 1..Len(raw[r]) : out[r][k] = CleanedAll(raw[r])[k]
            /\ ai_at[r] # NoPos => out[r] = CleanedAll(raw[r]))
    /\ [][\A r \in Req :
            /\ raw'[r] # raw[r]
               => /\ Len(out[r]) = Len(raw[r])
                  /\ Len(raw'[r]) = Len(raw[r]) + 1
                  /\ out'[r] = Append(out[r],
                                      CleanedAll(raw'[r])[Len(raw'[r])])
                  /\ ai_at[r] = NoPos
                  /\ ai_at'[r] = NoPos
            /\ ai_at'[r] # ai_at[r]
               => /\ Exhausted(r)
                  /\ out[r] = CleanedAll(raw[r])
                  /\ out'[r] = out[r]
                  /\ raw'[r] = raw[r]
            /\ ai_at[r] # NoPos => out'[r] = out[r] /\ raw'[r] = raw[r]]_vars

\* C14 witness: a request has forwarded two different cleaned fragments, in
\* the order they came, and then appended its AI message
C14_Witness ==
    \E r \in Req :
        /\ Completed(r)
        /\ ai_at[r] # NoPos
        /\ Len(raw[r]) = 2
        /\ out[r] = CleanedAll(raw[r])
        /\ out[r][1] # out[r][2]

\* C15: the model is invoked at most once per request: exactly once for a
\* request with a prompt whose stream has been started, never for a rejected
\* request, and never again after a failure of the model.
C15_ModelCalledAtMostOnce ==
    /\ [](\A r \in Req :
            /\ calls[r] <= 1
            /\ pc[r] \in {"streaming", "error_yielded", "failed", "append_ai",
                          "completed"} => calls[r] = 1
            /\ pc[r] \in {"idle", "rejected", "seed", "subscript_human",
                          "append_human", "bind", "returned"} => calls[r] = 0
            /\ (Received(r) /\ ~HasPrompt(r)) => calls[r] = 0)
    /\ [][\A r \in Req :
            /\ calls'[r] # calls[r]
               => /\ pc[r] = "returned"
                  /\ HasPrompt(r)
                  /\ calls[r] = 0
            /\ pc[r] \in {"error_yielded", "failed"}
               => /\ calls'[r] = calls[r]
                  /\ pc'[r] \in {"error_yielded", "failed"}]_vars

\* C15 witness: the model failed for one request, which was not retried, and
\* another request was rejected without a call
C15_Witness ==
    \E r, q \in Req :
        /\ pc[r] = "failed"
        /\ calls[r] = 1
        /\ pc[q] = "rejected"
        /\ calls[q] = 0

\* the stored history of id holds the human message of request r, where r
\* appended it
HoldsHumanOf(id, r) ==
    /\ human_at[r] # NoPos
    /\ human_at[r][1] = chat_histories[id]
    /\ human_at[r][2] <= Len(History(id))
    /\ History(id)[human_at[r][2]] = HumanMessage(data[r]["prompt"])

\* C16 (as claimed): under every interleaving of requests on one identifier no
\* message is lost: the list stored under an identifier is never exchanged for
\* another one nor shortened, and once the handlers of two requests with a
\* prompt on the same identifier have both returned, the stored history holds
\* the human message of each.
C16_NoMessageLost ==
    /\ [][\A id \in Ids :
            chat_histories[id] # 0
            => /\ chat_histories'[id] = chat_histories[id]
               /\ Len(lists'[chat_histories[id]])
                      >= Len(lists[chat_histories[id]])]_vars
    /\ [](\A p, q \in Req :
            (/\ p # q
             /\ Returned(p) /\ Returned(q)
             /\ conversation_id[p] = conversation_id[q])
            => /\ HoldsHumanOf(conversation_id[p], p)
               /\ HoldsHumanOf(conversation_id[p], q))

\* the part of C16 that the code keeps: no list is ever shortened, a message
\* once appended to a list stays in it
C16_ListsOnlyGrow ==
    [][\A l \in Req : IsPrefix(lists[l], lists'[l])]_vars

\* the case of C16 without overlap: when one request had ended before the
\* other arrived, the stored history holds the human message of both
C16_SequentialKeepsBoth ==
    \A p, q \in Req :
        (/\ Before(p, q) /\ HasPrompt(p)
         /\ Returned(q)
         /\ conversation_id[p] = conversation_id[q])
        => /\ HoldsHumanOf(conversation_id[p], p)
           /\ HoldsHumanOf(conversation_id[p], q)

\* C17 (as claimed): the history handed to the model for a request ends with
\* the human message of that request: the list read by the model call is the
\* list the request appended to, and what is read stops at that message, so
\* nothing appended after it is handed over.
C17_CallEndsWithOwnHuman ==
    \A r \in Req :
        Called(r)
        => /\ messages_to_send[r] = human_at[r][1]
           /\ Len(sent[r]) = human_at[r][2]
           /\ sent[r][Len(sent[r])] = HumanMessage(data[r]["prompt"])

\* the case of C17 without overlap: a request that met no other request on
\* its identifier while it was handled and streamed hands the model a history
\* that ends with its own human message
C17_AloneEndsWithOwnHuman ==
    \A r \in Req :
        (Called(r) /\ \A q \in On(conversation_id[r]) \ {r} : Before(q, r))
        => /\ Len(sent[r]) = human_at[r][2]
           /\ sent[r][Len(sent[r])] = HumanMessage(data[r]["prompt"])

\* the failing case of C17 that needs no replaced list: the handler of r
\* returned, another request appended its human message to the same list
\* before the generator of r was first iterated, and the model call of r
\* received that later message after its own
C17_LaterMessageHandedOver ==
    \E r, q \in Req :
        /\ r # q
        /\ Called(r)
        /\ \A id \in Ids : chat_histories[id] \in {0, human_at[r][1]}
        /\ messages_to_send[r] = human_at[r][1]
        /\ human_at[q][1] = human_at[r][1]
        /\ human_at[q][2] = human_at[r][2] + 1
        /\ Len(sent[r]) = human_at[q][2]
        /\ sent[r][Len(sent[r])] = HumanMessage(data[q]["prompt"])

\* requests p and q did not overlap in time: one had ended before the other
\* arrived
Apart(p, q) == Before(p, q) \/ Before(q, p)

\* the first part of C18: each stored history has at most as many AI messages
\* as human messages
C18_NoMoreAIThanHuman ==
    \A id \in Ids :
        chat_histories[id] # 0
        => Count(History(id), "ai") <= Count(History(id), "human")

\* C18 (as claimed): in every reachable state each stored history has at most
\* as many AI messages as human messages; and when the requests on an
\* identifier do not overlap in time, the AI message of a request stands
\* immediately after the human message of that request, in the same list.
C18_AIPairedWithHuman ==
    /\ \A id \in Ids :
        chat_histories[id] # 0
        => Count(History(id), "ai") <= Count(History(id), "human")
    /\ \A r \in Req :
        (/\ ai_at[r] # NoPos
         /\ \A q \in On(conversation_id[r]) \ {r} : Apart(q, r))
        => /\ ai_at[r][1] = human_at[r][1]
           /\ ai_at[r][2] = human_at[r][2] + 1
           /\ lists[ai_at[r][1]][human_at[r][2]]
                  = HumanMessage(data[r]["prompt"])
           /\ lists[ai_at[r][1]][ai_at[r][2]] = AIMessage(Join(out[r]))

\* the second part of C18 alone
C18_SequentialAIFollowsHuman ==
    \A r \in Req :
        (/\ ai_at[r] # NoPos
         /\ \A q \in On(conversation_id[r]) \ {r} : Apart(q, r))
        => /\ ai_at[r][1] = human_at[r][1]
           /\ ai_at[r][2] = human_at[r][2] + 1

\* the first part of C18 where no list was replaced: as long as at most one
\* request created a list for an identifier, its history has at most as many
\* AI messages as human messages
C18_UnreplacedNoMoreAI ==
    \A id \in Ids :
        (/\ chat_histories[id] # 0
         /\ Cardinality({ r \in On(id) : Seeded(r) }) <= 1)
        => Count(History(id), "ai") <= Count(History(id), "human")

\* request r takes the step
Steps(r) == pc'[r] # pc[r] \/ raw'[r] # raw[r]

\* C19: every step of the handling of a request (receipt, seeding, human
\* append, return, model call, fragment, failure, AI append) leaves under
\* every identifier other than the request's own the same list with the same
\* messages, and no step removes an identifier from the store.
C19_OtherHistoriesUntouched ==
    [][\A r \in Req :
        Steps(r)
        => /\ \A id \in Ids \ {conversation_id'[r]} :
                /\ chat_histories'[id] = chat_histories[id]
                /\ chat_histories[id] # 0 => History(id)' = History(id)
           /\ \A id \in Ids :
                chat_histories[id] # 0 => chat_histories'[id] # 0]_vars

\* C19 witness: two requests on different identifiers have both completed and
\* each history holds the turn of its own request only
C19_Witness ==
    \E r, q \in Req :
        /\ conversation_id[r] # conversation_id[q]
        /\ Completed(r) /\ Completed(q)
        /\ ~Apart(r, q)
        /\ History(conversation_id[r])
               = <<system_message, HumanMessage(data[r]["prompt"]),
                   AIMessage(Join(out[r]))>>
        /\ History(conversation_id[q])
               = <<system_message, HumanMessage(data[q]["prompt"]),
                   AIMessage(Join(out[q]))>>

====
